---- MODULE Spec2Model ----
(***************************************************************************)
(* Model of yoditor.py: recovery of the Russian letter <Ё> in texts.       *)
(*                                                                         *)
(* A text is a sequence of one-character strings.  The Cyrillic letters    *)
(* are written with Latin stand-ins:                                       *)
(*    "e" = е   "E" = Е   "y" = ё   "Y" = Ё   "a" = а   "A" = А            *)
(* The other characters are the space, the full stop (one of               *)
(* SENTENCE_ENDS), the hyphen and the angle brackets of the escape         *)
(* notation.                                                               *)
(***************************************************************************)
EXTENDS Integers, Sequences, FiniteSets, TLC

VARIABLES
    fn,                     \* the entry point under execution
    pc,                     \* position inside the entry point
    yo_sure,                \* words of yobase/yo_sure.txt
    yo_unsure,              \* words of yobase/yo_unsure.txt
    yo_sure_compound,       \* lines of yobase/yo_sure_compound.txt
    yo_sure_collocations,   \* lines of yobase/yo_sure_collocations.txt
    ye_sure,                \* lines of yobase/ye_sure.txt
    ye_sure_first_words,    \* lines of yobase/ye_sure_first_words.txt
    yes_reply,              \* parameter yes_reply of recover_yo_unsure
    input,                  \* the argument `text` of the call
    text,                   \* the local variable `text`
    mid,                    \* the text after the first stage of the call
    words,                  \* yo_sure_words / yo_unsure_words
    run,                    \* number of the current recover_yo_sure call
    wi,                     \* index of `word` in `words`
    vi,                     \* index of the case variant `w` of `word`
    hits,                   \* spans finditer has still to yield
    results,                \* the values returned by the finished calls
    prompts                 \* the prompts shown so far, with their replies

vars == <<fn, pc, yo_sure, yo_unsure, yo_sure_compound, yo_sure_collocations,
          ye_sure, ye_sure_first_words, yes_reply, input, text, mid, words,
          run, wi, vi, hits, results, prompts>>

tables == <<yo_sure, yo_unsure, yo_sure_compound, yo_sure_collocations,
            ye_sure, ye_sure_first_words, yes_reply>>

----------------------------------------------------------------------------
(* Characters and the str methods the program uses.                        *)

\* '.,!?;–—…': the dashes and the ellipsis are written by name
SENTENCE_ENDS == {".", ",", "!", "?", ";", "endash", "emdash", "ellipsis"}

AFTER_WORD == SENTENCE_ENDS \cup {" "}

\* \s
Whitespace == {" ", "\t", "\n"}

\* \w
WordChars == {"e", "E", "y", "Y", "a", "A"}

LowerCh(c) ==
    CASE c = "E" -> "e" [] c = "Y" -> "y" [] c = "A" -> "a" [] OTHER -> c

UpperCh(c) ==
    CASE c = "e" -> "E" [] c = "y" -> "Y" [] c = "a" -> "A" [] OTHER -> c

lower(s) == [i \in 1..Len(s) |-> LowerCh(s[i])]

upper(s) == [i \in 1..Len(s) |-> UpperCh(s[i])]

capitalize(s) ==
    [i \in 1..Len(s) |-> IF i = 1 THEN UpperCh(s[i]) ELSE LowerCh(s[i])]

\* word.replace('ё', 'е').replace('Ё', 'Е')
Unmark(s) ==
    [i \in 1..Len(s) |->
        CASE s[i] = "y" -> "e" [] s[i] = "Y" -> "E" [] OTHER -> s[i]]

\* word.replace('<', '').replace('>', '')
IsBracket(c) == c \in {"<", ">"}

StripBrackets(s) == SelectSeq(s, LAMBDA c : ~IsBracket(c))

\* s[i:i+len(p)] == p, with i counted from 1
MatchesAt(s, p, i) ==
    /\ i >= 1
    /\ i + Len(p) - 1 <= Len(s)
    /\ \A k \in 1..Len(p) : s[i + k - 1] = p[k]

\* s[i:e], with i counted from 1 and e exclusive
Slice(s, i, e) == SubSeq(s, i, e - 1)

\* str.replace(old, new): the occurrences of old, leftmost first and not
\* overlapping, become new
RECURSIVE ReplaceFrom(_, _, _, _)
ReplaceFrom(s, old, new, i) ==
    IF i > Len(s) THEN <<>>
    ELSE IF MatchesAt(s, old, i)
         THEN new \o ReplaceFrom(s, old, new, i + Len(old))
         ELSE <<s[i]>> \o ReplaceFrom(s, old, new, i + 1)

Replace(s, old, new) == ReplaceFrom(s, old, new, 1)

----------------------------------------------------------------------------
(* Regular expressions.  The program builds four kinds of pattern around a *)
(* literal (re.escape'd) word w.                                           *)

IsWordAt(s, k) == k >= 1 /\ k <= Len(s) /\ s[k] \in WordChars

\* \b between the characters k and k+1 of s
Boundary(s, k) == IsWordAt(s, k) # IsWordAt(s, k + 1)

\* the exclusive end of the run of word characters that begins at j
RECURSIVE WordRunEnd(_, _)
WordRunEnd(s, j) == IF IsWordAt(s, j) THEN WordRunEnd(s, j + 1) ELSE j

\* RE_WORD_BOUNDARY, \b\w+\b
RE_WORD_BOUNDARY == [kind |-> "token", w |-> <<>>]

\* rf'\b{word_escaped}\b'
ReWord(w) == [kind |-> "word", w |-> w]

\* rf'\b{word_escaped}-\w+\b'
ReCompound(w) == [kind |-> "compound", w |-> w]

\* rf'\s{word_escaped}[{after_word_escaped}]'
ReYeSure(w) == [kind |-> "ye_sure", w |-> w]

\* rf'[{sentence_ends_escaped}]\s{word_escaped}[{after_word_escaped}]'
ReFirstWord(w) == [kind |-> "first_word", w |-> w]

\* the exclusive end of the match of re that begins at i, or 0
MatchEnd(s, re, i) ==
    LET n == Len(re.w) IN
    CASE re.kind = "token" ->
            IF Boundary(s, i - 1) /\ IsWordAt(s, i)
            THEN WordRunEnd(s, i) ELSE 0
      [] re.kind = "word" ->
            IF /\ Boundary(s, i - 1)
               /\ MatchesAt(s, re.w, i)
               /\ Boundary(s, i + n - 1)
            THEN i + n ELSE 0
      [] re.kind = "compound" ->
            IF /\ Boundary(s, i - 1)
               /\ MatchesAt(s, re.w \o <<"-">>, i)
               /\ IsWordAt(s, i + n + 1)
            THEN WordRunEnd(s, i + n + 1) ELSE 0
      [] re.kind = "ye_sure" ->
            IF /\ s[i] \in Whitespace
               /\ MatchesAt(s, re.w, i + 1)
               /\ i + n + 1 <= Len(s)
               /\ s[i + n + 1] \in AFTER_WORD
            THEN i + n + 2 ELSE 0
      [] re.kind = "first_word" ->
            IF /\ s[i] \in SENTENCE_ENDS
               /\ i + 1 <= Len(s)
               /\ s[i + 1] \in Whitespace
               /\ MatchesAt(s, re.w, i + 2)
               /\ i + n + 2 <= Len(s)
               /\ s[i + n + 2] \in AFTER_WORD
            THEN i + n + 3 ELSE 0

\* the matches of re in s from i on, leftmost first and not overlapping,
\* as spans <<start, end>> (end exclusive)
RECURSIVE FindSpans(_, _, _)
FindSpans(s, re, i) ==
    IF i > Len(s) THEN <<>>
    ELSE LET e == MatchEnd(s, re, i) IN
         IF e > 0 THEN <<<<i, e>>>> \o FindSpans(s, re, e)
         ELSE FindSpans(s, re, i + 1)

finditer(s, re) == FindSpans(s, re, 1)

findall(s, re) ==
    LET sp == finditer(s, re) IN
    {Slice(s, sp[k][1], sp[k][2]) : k \in 1..Len(sp)}

\* pattern.sub(repl, s)
RECURSIVE SubFrom(_, _, _, _)
SubFrom(s, re, repl, i) ==
    IF i > Len(s) THEN <<>>
    ELSE LET e == MatchEnd(s, re, i) IN
         IF e > 0 THEN repl \o SubFrom(s, re, repl, e)
         ELSE <<s[i]>> \o SubFrom(s, re, repl, i + 1)

sub(s, re, repl) == SubFrom(s, re, repl, 1)

_compile_word_boundary_regex(word) == ReWord(word)

\* the orders in which a set can be iterated
Orders(S) ==
    {o \in [1..Cardinality(S) -> S] :
        \A i, j \in 1..Cardinality(S) : o[i] = o[j] => i = j}

----------------------------------------------------------------------------
(* The dictionaries.  A dictionary variable holds the words of its file in *)
(* file order; the dict the program builds from them maps the key of each  *)
(* word to the last word with that key and iterates in the order in which  *)
(* the keys first appear.                                                  *)

FirstWithKey(keys, i) == \A j \in 1..(i - 1) : keys[j] # keys[i]

LastWithKey(keys, k) ==
    CHOOSE i \in 1..Len(keys) :
        keys[i] = k /\ \A j \in (i + 1)..Len(keys) : keys[j] # k

RECURSIVE DictValuesFrom(_, _, _)
DictValuesFrom(lines, keys, i) ==
    IF i > Len(lines) THEN <<>>
    ELSE IF FirstWithKey(keys, i)
         THEN <<lines[LastWithKey(keys, keys[i])]>>
                  \o DictValuesFrom(lines, keys, i + 1)
         ELSE DictValuesFrom(lines, keys, i + 1)

\* the values of {word.replace('ё', 'е').replace('Ё', 'Е'): word ...}
YoValues(lines) ==
    DictValuesFrom(lines, [i \in 1..Len(lines) |-> Unmark(lines[i])], 1)

\* the values of {word.replace('<', '').replace('>', ''): word ...}
YeValues(lines) ==
    DictValuesFrom(lines, [i \in 1..Len(lines) |-> StripBrackets(lines[i])], 1)

YoKeys(lines) == {Unmark(lines[i]) : i \in 1..Len(lines)}

YoGet(lines, key) ==
    lines[LastWithKey([i \in 1..Len(lines) |-> Unmark(lines[i])], key)]

\* (x.lower(), x.upper(), x.capitalize())
CaseVariants(x) == <<lower(x), upper(x), capitalize(x)>>

\* [word, word.capitalize(), word.upper()]
UnsureVariants(word) == <<word, capitalize(word), upper(word)>>

----------------------------------------------------------------------------
(* The functions of the module.  A function that iterates over a set       *)
(* yields the set of the results the iteration orders can give.            *)

RECURSIVE ApplyHits(_, _, _, _, _)
ApplyHits(t, order, k, old, new) ==
    IF k > Len(order) THEN t
    ELSE ApplyHits(Replace(t, order[k], Replace(order[k], old, new)),
                   order, k + 1, old, new)

replace_by_regex(t, regex, old, new) ==
    {ApplyHits(t, o, 1, old, new) : o \in Orders(findall(t, regex))}

get_words_with_ye(t) ==
    {word \in findall(lower(t), RE_WORD_BOUNDARY) :
        \E i \in 1..Len(word) : word[i] = "e"}

yobase_text_intersection(yobase, t) ==
    LET found == {word \in get_words_with_ye(t) : word \in YoKeys(yobase)} IN
    {[i \in 1..Len(o) |-> YoGet(yobase, o[i])] : o \in Orders(found)}

\* the loop of recover_yo_sure_compound_adjective from its k-th iteration
RECURSIVE CompoundFrom(_, _, _)
CompoundFrom(ts, values, k) ==
    IF k > 3 * Len(values) THEN ts
    ELSE LET w_yo == CaseVariants(values[((k - 1) \div 3) + 1])[((k - 1) % 3) + 1]
             w_ye == Unmark(w_yo)
         IN  CompoundFrom(
                 UNION {replace_by_regex(t, ReCompound(w_ye), w_ye, w_yo) : t \in ts},
                 values, k + 1)

recover_yo_sure_compound_adjective(t) ==
    CompoundFrom({t}, YoValues(yo_sure_compound), 1)

\* the loop of escape_ye_sure_first_words from its k-th iteration
RECURSIVE FirstWordsFrom(_, _, _)
FirstWordsFrom(ts, values, k) ==
    IF k > 3 * Len(values) THEN ts
    ELSE LET w_with_escape ==
                 CaseVariants(values[((k - 1) \div 3) + 1])[((k - 1) % 3) + 1]
             w_wo_escape == StripBrackets(w_with_escape)
         IN  FirstWordsFrom(
                 UNION {replace_by_regex(t, ReFirstWord(w_wo_escape),
                                         w_wo_escape, w_with_escape) : t \in ts},
                 values, k + 1)

escape_ye_sure_first_words(t) ==
    FirstWordsFrom({t}, YeValues(ye_sure_first_words), 1)

\* the loop of escape_ye_sure from its k-th iteration
RECURSIVE YeSureFrom(_, _, _)
YeSureFrom(ts, values, k) ==
    IF k > 3 * Len(values) THEN ts
    ELSE LET w_with_escape ==
                 CaseVariants(values[((k - 1) \div 3) + 1])[((k - 1) % 3) + 1]
             w_wo_escape == StripBrackets(w_with_escape)
         IN  YeSureFrom(
                 UNION {replace_by_regex(t, ReYeSure(w_wo_escape),
                                         w_wo_escape, w_with_escape) : t \in ts},
                 values, k + 1)

escape_ye_sure(t) ==
    YeSureFrom(escape_ye_sure_first_words(t), YeValues(ye_sure), 1)

\* RE_ESCAPE_E_LOWER.sub alone
UnescapeLowerOnly(t) == Replace(t, <<"<", "e", ">">>, <<"e">>)

unescape_ye_sure(t) ==
    Replace(Replace(t, <<"<", "e", ">">>, <<"e">>), <<"<", "E", ">">>, <<"E">>)

\* the loop of recover_yo_sure over yo_sure_words from its k-th iteration
RECURSIVE SureLoopFrom(_, _, _)
SureLoopFrom(t, ws, k) ==
    IF k > 3 * Len(ws) THEN t
    ELSE LET w_yo == CaseVariants(ws[((k - 1) \div 3) + 1])[((k - 1) % 3) + 1]
             w_ye == Unmark(w_yo)
         IN  SureLoopFrom(sub(t, _compile_word_boundary_regex(w_ye), w_yo),
                          ws, k + 1)

----------------------------------------------------------------------------
(* The inputs: texts up to a length over an alphabet, and dictionary files *)
(* of a few short words.                                                   *)

MaxLenSure == 5

MaxLenOverlap == 9

MaxLenEscape == 5

MaxLenRepeat == 7

MaxLenUnsure == 4

StringsUpTo(alphabet, n) == UNION {[1..k -> alphabet] : k \in 0..n}

SureAlphabet == {"e", "E", "a", "-", " "}

OverlapAlphabet == {"e", "a", " "}

EscapeAlphabet == {"e", "E", "a", " ", ".", "<", ">"}

UnsureAlphabet == {"e", "E", "a", " ", "."}

RepeatAlphabet == {"e", "a", " "}

YoSureFiles ==
    {<<>>, << <<"a", "y">> >>, << <<"A", "y">> >>, << <<"y">> >>}

CompoundFiles == {<<>>, << <<"a", "y">> >>, << <<"y">> >>}

CollocationFiles == {<<>>, << <<"y", " ", "a", "y">> >>}

OverlapCollocationFiles == {<< <<"a", " ", "y", " ", "a">> >>}

YoUnsureFiles ==
    {<< <<"y">> >>, << <<"a", "y">> >>, << <<"a", "y">>, <<"y">> >>}

YeSureFiles ==
    {<<>>, << <<"<", "e", ">">> >>,
     << <<"a", "<", "e", ">">>, <<"<", "e", ">">> >>}

FirstWordsFiles == {<<>>, << <<"<", "e", ">">>, <<"a", "<", "e", ">">> >>}

YesReplies == {<<"y">>, <<"Y">>}

Replies == {<<"y">>, <<"Y">>, <<>>}

\* the state at the call of an entry point
Call(f, p) ==
    /\ fn = f
    /\ pc = p
    /\ text = input
    /\ mid = <<>>
    /\ words = <<>>
    /\ run = 1
    /\ wi = 1
    /\ vi = 1
    /\ hits = <<>>
    /\ results = <<>>
    /\ prompts = <<>>

NoSureTables ==
    /\ yo_sure = <<>>
    /\ yo_sure_compound = <<>>
    /\ yo_sure_collocations = <<>>

NoUnsureTables ==
    /\ yo_unsure = <<>>
    /\ yes_reply = <<"y">>

\* recover_yo_sure(text), and then recover_yo_sure of its result
InitSure ==
    /\ input \in StringsUpTo(SureAlphabet, MaxLenSure)
    /\ yo_sure \in YoSureFiles
    /\ yo_sure_compound \in CompoundFiles
    /\ yo_sure_collocations \in CollocationFiles
    /\ NoUnsureTables
    /\ ye_sure = <<>>
    /\ ye_sure_first_words = <<>>
    /\ Call("recover_yo_sure", "compound")

\* the same two calls on longer texts, with a collocation that begins
\* and ends with the same word
InitOverlap ==
    /\ input \in StringsUpTo(OverlapAlphabet, MaxLenOverlap)
    /\ yo_sure = <<>>
    /\ yo_sure_compound = <<>>
    /\ yo_sure_collocations \in OverlapCollocationFiles
    /\ NoUnsureTables
    /\ ye_sure = <<>>
    /\ ye_sure_first_words = <<>>
    /\ Call("recover_yo_sure", "compound")

\* unescape_ye_sure(escape_ye_sure(text))
InitEscape ==
    /\ input \in StringsUpTo(EscapeAlphabet, MaxLenEscape)
    /\ NoSureTables
    /\ NoUnsureTables
    /\ ye_sure \in YeSureFiles
    /\ ye_sure_first_words \in FirstWordsFiles
    /\ Call("escape_ye_sure", "escape")

\* recover_yo_unsure(text, yes_reply=yes_reply)
InitUnsure ==
    /\ input \in StringsUpTo(UnsureAlphabet, MaxLenUnsure)
    /\ NoSureTables
    /\ yo_unsure \in YoUnsureFiles
    /\ yes_reply \in YesReplies
    /\ ye_sure \in YeSureFiles
    /\ ye_sure_first_words \in FirstWordsFiles
    /\ Call("recover_yo_unsure", "intersect")

\* the same call on longer texts, with one word of two letters that is in
\* yo_unsure and in ye_sure
InitRepeat ==
    /\ input \in StringsUpTo(RepeatAlphabet, MaxLenRepeat)
    /\ NoSureTables
    /\ yo_unsure = << <<"a", "y">> >>
    /\ yes_reply \in YesReplies
    /\ ye_sure = << <<"a", "<", "e", ">">> >>
    /\ ye_sure_first_words = <<>>
    /\ Call("recover_yo_unsure", "intersect")

----------------------------------------------------------------------------
(* recover_yo_sure                                                         *)

\* text = recover_yo_sure_compound_adjective(text)
SureCompound ==
    /\ pc = "compound"
    /\ text' \in recover_yo_sure_compound_adjective(text)
    /\ mid' = IF run = 1 THEN text' ELSE mid
    /\ pc' = "words"
    /\ UNCHANGED <<fn, tables, input, words, run, wi, vi, hits, results,
                   prompts>>

\* yo_sure_words = yobase_text_intersection(yo_sure, text)
\* yo_sure_words += list(yo_sure_collocations.values())
SureWords ==
    /\ pc = "words"
    /\ \E found \in yobase_text_intersection(yo_sure, text) :
           words' = found \o YoValues(yo_sure_collocations)
    /\ pc' = "replace"
    /\ UNCHANGED <<fn, tables, input, text, mid, run, wi, vi, hits, results,
                   prompts>>

\* the loop over yo_sure_words, and the return
SureReplace ==
    /\ pc = "replace"
    /\ text' = SureLoopFrom(text, words, 1)
    /\ results' = Append(results, text')
    /\ pc' = IF run = 1 THEN "again" ELSE "done"
    /\ UNCHANGED <<fn, tables, input, mid, words, run, wi, vi, hits, prompts>>

\* recover_yo_sure is called on the text it returned
SureAgain ==
    /\ pc = "again"
    /\ run' = 2
    /\ words' = <<>>
    /\ pc' = "compound"
    /\ UNCHANGED <<fn, tables, input, text, mid, wi, vi, hits, results,
                   prompts>>

NextSure == SureCompound \/ SureWords \/ SureReplace \/ SureAgain

SpecSure == InitSure /\ [][NextSure]_vars

SpecOverlap == InitOverlap /\ [][NextSure]_vars

----------------------------------------------------------------------------
(* escape_ye_sure and unescape_ye_sure, alone and inside recover_yo_unsure *)

\* text = escape_ye_sure(text)
EscapeYeSure ==
    /\ pc = "escape"
    /\ text' \in escape_ye_sure(text)
    /\ mid' = text'
    /\ pc' = IF fn = "recover_yo_unsure" THEN "loop" ELSE "unescape"
    /\ UNCHANGED <<fn, tables, input, words, run, wi, vi, hits, results,
                   prompts>>

\* text = unescape_ye_sure(text), and the return
UnescapeYeSure ==
    /\ pc = "unescape"
    /\ text' = unescape_ye_sure(text)
    /\ results' = Append(results, text')
    /\ pc' = "done"
    /\ UNCHANGED <<fn, tables, input, mid, words, run, wi, vi, hits, prompts>>

NextEscape == EscapeYeSure \/ UnescapeYeSure

SpecEscape == InitEscape /\ [][NextEscape]_vars

----------------------------------------------------------------------------
(* recover_yo_unsure.  What it prints (the context of the hit, cut to      *)
(* print_width) changes no state and is left out.                          *)

\* the `w` and the `word_with_ye` of the current iteration
CurrentW == UnsureVariants(words[wi])[vi]

CurrentWordWithYe == Unmark(CurrentW)

\* input(...).lower() == yes_reply
Accepts(reply) == lower(reply) = yes_reply

\* text.replace(word_with_ye, w): every occurrence in the text, not the span
AcceptEverywhere(t, start, end, word_with_ye, w) == Replace(t, word_with_ye, w)

\* text[:start] + text[start:end].replace(word_with_ye, w) + text[end:]
AcceptAt(t, start, end, word_with_ye, w) ==
    Slice(t, 1, start)
        \o Replace(Slice(t, start, end), word_with_ye, w)
        \o Slice(t, end, Len(t) + 1)

\* yo_unsure_words = yobase_text_intersection(yo_unsure, text)
UnsureWords ==
    /\ pc = "intersect"
    /\ words' \in yobase_text_intersection(yo_unsure, text)
    /\ pc' = "escape"
    /\ UNCHANGED <<fn, tables, input, text, mid, run, wi, vi, hits, results,
                   prompts>>

\* hits = compiled_regex.finditer(text): the iterator scans the string
\* `text` names at this moment
UnsureFindIter ==
    /\ pc = "loop"
    /\ wi <= Len(words)
    /\ hits' = finditer(text, _compile_word_boundary_regex(CurrentWordWithYe))
    /\ pc' = "hits"
    /\ UNCHANGED <<fn, tables, input, text, mid, words, run, wi, vi, results,
                   prompts>>

\* one iteration of `for hit in hits`: the prompt and its reply
UnsurePrompt ==
    /\ pc = "hits"
    /\ hits # <<>>
    /\ \E reply \in Replies :
        LET start == Head(hits)[1]
            end == Head(hits)[2]
        IN  /\ prompts' = Append(prompts,
                              [start |-> start, end |-> end,
                               word_with_ye |-> CurrentWordWithYe,
                               w |-> CurrentW, reply |-> reply,
                               accepted |-> Accepts(reply)])
            /\ text' = IF Accepts(reply)
                       THEN AcceptAt(text, start, end, CurrentWordWithYe, CurrentW)
                       ELSE text
    /\ hits' = Tail(hits)
    /\ UNCHANGED <<fn, pc, tables, input, mid, words, run, wi, vi, results>>

\* the iterator is exhausted: the next case variant, or the next word
UnsureNext ==
    /\ pc = "hits"
    /\ hits = <<>>
    /\ IF vi < 3 THEN vi' = vi + 1 /\ wi' = wi
                 ELSE vi' = 1 /\ wi' = wi + 1
    /\ pc' = "loop"
    /\ UNCHANGED <<fn, tables, input, text, mid, words, run, hits, results,
                   prompts>>

\* the loop over yo_unsure_words is over
UnsureLoopEnd ==
    /\ pc = "loop"
    /\ wi > Len(words)
    /\ pc' = "unescape"
    /\ UNCHANGED <<fn, tables, input, text, mid, words, run, wi, vi, hits,
                   results, prompts>>

NextUnsure ==
    \/ UnsureWords
    \/ EscapeYeSure
    \/ UnsureFindIter
    \/ UnsurePrompt
    \/ UnsureNext
    \/ UnsureLoopEnd
    \/ UnescapeYeSure

SpecUnsure == InitUnsure /\ [][NextUnsure]_vars

SpecRepeat == InitRepeat /\ [][NextUnsure]_vars

----------------------------------------------------------------------------
(* The claims.                                                             *)

\* the positions at which re matches in t with its boundaries, whether or
\* not a scan from the left would reach them
OccurrencesOf(t, re) == {i \in 1..Len(t) : MatchEnd(t, re, i) > 0}

ThreeCases(x) == {lower(x), capitalize(x), upper(x)}

HasMarker(t) ==
    \E i \in 1..Len(t) :
        MatchesAt(t, <<"<", "e", ">">>, i) \/ MatchesAt(t, <<"<", "E", ">">>, i)

\* the offset in the unescaped text of the offset i of the escaped text
RawOffset(i) == i - Cardinality({k \in 1..(i - 1) : IsBracket(mid[k])})

\* C1: in recover_yo_unsure, at every prompt the span [start, end) of the
\* current text holds the unmarked form asked about; an accepted reply
\* rewrites exactly that span to the marked form of the same case, and a
\* rejected reply leaves the text unchanged.
C1_PerOccurrence ==
    [][(pc = "hits" /\ hits # <<>>) =>
        LET start == Head(hits)[1]
            end == Head(hits)[2]
            p == prompts'[Len(prompts')]
        IN  /\ Slice(text, start, end) = CurrentWordWithYe
            /\ p.accepted =>
                   text' = Slice(text, 1, start) \o CurrentW
                               \o Slice(text, end, Len(text) + 1)
            /\ ~p.accepted => text' = text]_vars

\* two occurrences of one word were asked about, the first was accepted
\* and the second rejected: the first is marked, the second is not
C1_Witness ==
    /\ pc = "unescape"
    /\ \E i, j \in 1..Len(prompts) :
        /\ i < j
        /\ prompts[i].word_with_ye = prompts[j].word_with_ye
        /\ prompts[i].w # prompts[i].word_with_ye
        /\ prompts[i].accepted
        /\ ~prompts[j].accepted
        /\ Slice(text, prompts[i].start, prompts[i].end) = prompts[i].w
        /\ Slice(text, prompts[j].start, prompts[j].end) = prompts[j].word_with_ye

\* C2: for a text without escape markers, unescape_ye_sure(escape_ye_sure(text))
\* is the text.
C2_RoundTrip == (pc = "done" /\ ~HasMarker(input)) => text = input

\* a text without markers was escaped in lower and in upper case, and came back
C2_Witness ==
    /\ pc = "done"
    /\ ~HasMarker(input)
    /\ \E i \in 1..Len(mid) : MatchesAt(mid, <<"<", "e", ">">>, i)
    /\ \E i \in 1..Len(mid) : MatchesAt(mid, <<"<", "E", ">">>, i)
    /\ text = input

\* the unmarked forms recover_yo_sure looks for: the keys of the certain
\* dictionary, the compound prefixes and the collocations, in three cases
Lines(file) == {file[i] : i \in 1..Len(file)}

UnmarkedForms ==
    UNION {ThreeCases(Unmark(x)) :
              x \in Lines(yo_sure) \cup Lines(yo_sure_compound)
                       \cup Lines(yo_sure_collocations)}

\* C3: every character recover_yo_sure changes lies inside an occurrence of
\* an unmarked form that has a word boundary on both sides.
C3_BoundaryRespect ==
    pc = "again" =>
        /\ Len(text) = Len(input)
        /\ \A i \in 1..Len(input) :
              text[i] # input[i] =>
                  \E f \in UnmarkedForms :
                      \E j \in OccurrencesOf(input, ReWord(f)) :
                          j <= i /\ i < j + Len(f)

\* the word of the prompt p is in ye_sure and in yo_unsure, and the
\* occurrence asked about stands, in the text as it was given, after a
\* whitespace character and before a space or a sentence end
EscapedContext(p) ==
    LET s == RawOffset(p.start)
        e == RawOffset(p.end)
    IN  /\ \E x \in Lines(ye_sure) :
               p.word_with_ye \in ThreeCases(StripBrackets(x))
        /\ lower(p.word_with_ye) \in YoKeys(yo_unsure)
        /\ Slice(input, s, e) = p.word_with_ye
        /\ s > 1 /\ input[s - 1] \in Whitespace
        /\ e <= Len(input) /\ input[e] \in AFTER_WORD

\* C4: recover_yo_unsure never prompts for an occurrence of a word of both
\* ye_sure and yo_unsure that stands in the context of its escape pattern.
C4_EscapePrecedence ==
    \A k \in 1..Len(prompts) : ~EscapedContext(prompts[k])

\* C5: recover_yo_sure(recover_yo_sure(text)) = recover_yo_sure(text).
C5_Idempotent == pc = "done" => results[2] = results[1]

\* C6: after recover_yo_sure every whole-word occurrence of the unmarked
\* form of an entry of yo_sure, in lower, capitalized or upper case, is the
\* marked form in the same case.
C6_Complete ==
    pc = "again" =>
        \A x \in Lines(yo_sure) : \A v \in ThreeCases(x) :
            \A i \in OccurrencesOf(input, ReWord(Unmark(v))) :
                Slice(text, i, i + Len(v)) = v

\* C7: after recover_yo_sure every whole-word occurrence of the unmarked
\* form of a collocation, in lower, capitalized or upper case, is the marked
\* form in the same case.
C7_Collocations ==
    pc = "again" =>
        \A x \in Lines(yo_sure_collocations) : \A v \in ThreeCases(x) :
            \A i \in OccurrencesOf(input, ReWord(Unmark(v))) :
                Slice(text, i, i + Len(v)) = v

\* C8: recover_yo_sure_compound_adjective turns the prefix of every
\* hyphenated occurrence into its marked form of the same case, and leaves
\* the hyphen and the suffix as they were.
C8_PrefixOnly ==
    (pc = "words" /\ run = 1) =>
        \A x \in Lines(yo_sure_compound) : \A v \in ThreeCases(x) :
            \A i \in OccurrencesOf(input, ReCompound(Unmark(v))) :
                LET e == MatchEnd(input, ReCompound(Unmark(v)), i) IN
                /\ Slice(text, i, i + Len(v)) = v
                /\ Slice(text, i + Len(v), e) = Slice(input, i + Len(v), e)

\* C9: within one recover_yo_unsure session no span is prompted for twice.
C9_NoRevisit ==
    \A i, j \in 1..Len(prompts) :
        (prompts[i].start = prompts[j].start /\ prompts[i].end = prompts[j].end)
            => i = j

\* C10: a reply is accepted exactly when it equals yes_reply up to letter
\* case.
C10_CaseInsensitive ==
    \A k \in 1..Len(prompts) :
        prompts[k].accepted <=> (lower(prompts[k].reply) = lower(yes_reply))

====
